---- MODULE Spec2Model ----
(***************************************************************************)
(* Model of src/src/index.ts: the GitHub action that waits for a Supabase  *)
(* preview branch and republishes its credentials as outputs.              *)
(*                                                                         *)
(* main() is an async function: the code between two awaits runs without   *)
(* interruption, so every action below is one such segment.  pc is the     *)
(* await (or loop head) at which main is suspended.  Time is in ms since   *)
(* the loop start (Date.now() - now).                                      *)
(***************************************************************************)
EXTENDS Integers, Sequences, FiniteSets, TLC

VARIABLES
    pc,                \* "start" | "guard" | "list" | "detail" | "creds" | "sleep" | "done"
    sbToken,           \* input supabase-access-token (line 8)
    sbRef,             \* input supabase-project-id (line 9)
    waitForMigrations, \* input wait-for-migrations (line 10)
    timeoutInput,      \* input timeout, the string
    env,               \* process.env: GITHUB_HEAD_REF and GITHUB_REF
    timeout,           \* line 11, Number(...) of the input
    branchName,        \* lines 37-41, optional
    elapsed,           \* Date.now() - now
    branches,          \* line 56, the listing of the current tick
    currentBranch,     \* line 69, optional
    ready,             \* the value of the condition of lines 71-74 in this tick
    branchDetails,     \* line 76, optional
    apiKeys,           \* line 95, optional
    lastErr,           \* the rejection the last awaited call of this tick settled with, optional
    inflight,          \* the remote calls issued and not yet settled
    calls,             \* number of calls issued so far, per remote operation
    readyTicks,        \* number of ticks whose condition at lines 71-74 held
    events,            \* what the current tick logged, marked and published, in order
    secrets,           \* values passed to core.setSecret
    outputs,           \* core.setOutput calls so far, in order
    failed,            \* core.setFailed was called
    failMsg,           \* its message
    caught,            \* the error handleError received, optional
    success            \* lines 166-167 were reached

inputs == <<sbToken, sbRef, waitForMigrations, timeoutInput, env>>
tickVars == <<branches, currentBranch, ready, branchDetails, apiKeys>>
outcome == <<failed, failMsg, caught, success>>

vars == <<pc, inputs, timeout, branchName, elapsed, tickVars, lastErr,
          inflight, calls, readyTicks, events, secrets, outputs, outcome>>

----------------------------------------------------------------------------
(* Bounds of the model *)

MaxListLen == 2

----------------------------------------------------------------------------
(* JavaScript values *)

\* an optional value: undefined / null is the empty tuple
Null == <<>>
Some(x) == <<x>>
IsNull(o) == o = <<>>
Val(o) == o[1]

\* a field value of a response object: string, number, boolean or undefined
StrV(s) == [k |-> "str", s |-> s, n |-> 0, b |-> FALSE]
NumV(n) == [k |-> "num", s |-> "", n |-> n, b |-> FALSE]
BoolV(b) == [k |-> "bool", s |-> "", n |-> 0, b |-> b]
Undef == [k |-> "undef", s |-> "", n |-> 0, b |-> FALSE]

\* if (value)
Truthy(v) ==
    CASE v.k = "str" -> v.s # ""
      [] v.k = "num" -> v.n # 0
      [] v.k = "bool" -> v.b
      [] OTHER -> FALSE

\* value.toString() and `${value}`
ToStr(v) ==
    CASE v.k = "str" -> v.s
      [] v.k = "num" -> ToString(v.n)
      [] v.k = "bool" -> (IF v.b THEN "true" ELSE "false")
      [] OTHER -> "undefined"

\* value === "some string"
StrictEqStr(v, s) == v.k = "str" /\ v.s = s

----------------------------------------------------------------------------
(* Inputs *)

\* Number(core.getInput("timeout")): a NaN, or the number of seconds
NaN == [nan |-> TRUE, v |-> 0]
Num(n) == [nan |-> FALSE, v |-> n]
TimeoutInputs == {"abc", "", "-1", "0", "3", "6"}
ParseNumber(s) ==
    CASE s = "" -> Num(0)
      [] s = "-1" -> Num(-1)
      [] s = "0" -> Num(0)
      [] s = "3" -> Num(3)
      [] s = "6" -> Num(6)
      [] OTHER -> NaN

\* process.env: GITHUB_HEAD_REF is an optional string, GITHUB_REF an optional
\* sequence of path segments ("refs/heads/feat" is <<"refs", "heads", "feat">>)
Envs ==
    { [head |-> Some("feat"), ref |-> Some(<<"refs", "pull", "7", "merge">>)],
      [head |-> Some("status"), ref |-> Some(<<"refs", "pull", "8", "merge">>)],
      [head |-> Some(""), ref |-> Some(<<"refs", "heads", "feat">>)],
      [head |-> Some(""), ref |-> Some(<<"refs", "tags", "v1">>)],
      [head |-> Null, ref |-> Some(<<"refs", "heads", "">>)],
      [head |-> Null, ref |-> Null] }

\* what lies before the next occurrence of "refs/heads/"
RECURSIVE UpToNextRefsHeads(_)
UpToNextRefsHeads(segs) ==
    IF Len(segs) = 0 THEN ""
    ELSE IF Len(segs) >= 3 /\ segs[1] = "refs" /\ segs[2] = "heads" THEN ""
    ELSE IF Len(segs) = 1 THEN segs[1]
    ELSE segs[1] \o "/" \o UpToNextRefsHeads(Tail(segs))

\* ref.split("refs/heads/")[1]: what lies between the first and the second
\* occurrence of "refs/heads/", undefined when there is no occurrence
RECURSIVE SplitRefsHeads1(_)
SplitRefsHeads1(segs) ==
    IF Len(segs) < 3 THEN Null
    ELSE IF segs[1] = "refs" /\ segs[2] = "heads"
         THEN Some(UpToNextRefsHeads(Tail(Tail(segs))))
         ELSE SplitRefsHeads1(Tail(segs))

\* lines 37-41
ResolveBranchName(e) ==
    IF ~IsNull(e.head) /\ Val(e.head) # "" THEN e.head
    ELSE IF IsNull(e.ref) THEN SplitRefsHeads1(<<"">>)
    ELSE SplitRefsHeads1(Val(e.ref))

----------------------------------------------------------------------------
(* What the remote API can answer *)

Summary(id, name, status, git, pr, rop) ==
    [id |-> StrV(id), name |-> StrV(name), project_ref |-> StrV("ref-" \o id),
     parent_project_ref |-> StrV("proj"), git_branch |-> git, pr_number |-> pr,
     reset_on_push |-> rop, status |-> StrV(status),
     created_at |-> StrV("2024-01-01"), updated_at |-> StrV("2024-01-02")]

Summaries ==
    { Summary("b1", "feat", "CREATING_PROJECT", StrV("feat"), NumV(7), BoolV(TRUE)),
      Summary("b2", "feat", "MIGRATIONS_PASSED", Undef, NumV(0), BoolV(FALSE)),
      Summary("b4", "feat", "MIGRATIONS_FAILED", StrV(""), Undef, BoolV(TRUE)),
      Summary("b5", "Feat", "MIGRATIONS_PASSED", StrV("Feat"), NumV(9), BoolV(TRUE)),
      Summary("b6", "status", "FUNCTIONS_DEPLOYED", StrV("status"), NumV(8), BoolV(TRUE)) }

\* a listing holds each branch once: the ids of a project's branches are distinct
Listings ==
    {l \in UNION {[1..n -> Summaries] : n \in 0..MaxListLen} :
        \A i, j \in 1..Len(l) : i # j => l[i].id # l[j].id}

Details ==
    { [ref |-> StrV("ref-x"), db_host |-> StrV("db.ref-x.supabase.co"),
       db_port |-> NumV(5432), db_user |-> StrV("postgres"),
       db_pass |-> StrV("pw"), jwt_secret |-> StrV("jwt")],
      [ref |-> StrV("ref-y"), db_host |-> StrV("status"),
       db_port |-> NumV(0), db_user |-> Undef,
       db_pass |-> StrV(""), jwt_secret |-> StrV("jwt")] }

KeyLists ==
    { <<>>,
      <<[name |-> "anon", api_key |-> "k-anon"],
        [name |-> "service_role", api_key |-> "k-service"]>> }

\* an ApiError, or an error without a status (a network error)
ApiErr(st) == [hasStatus |-> TRUE, status |-> st]
NetErr == [hasStatus |-> FALSE, status |-> 0]
Errors == {NetErr, ApiErr(404), ApiErr(429), ApiErr(499), ApiErr(500), ApiErr(503)}

\* `${err}`
ErrToString(err) ==
    IF err.hasStatus THEN "ApiError: " \o ToString(err.status) ELSE "TypeError: fetch failed"

\* a settled promise
Resolved(v) == [ok |-> TRUE, val |-> v, err |-> NetErr]
Rejected(e) == [ok |-> FALSE, val |-> Null, err |-> e]

ListResponses == {Resolved(l) : l \in Listings} \cup {Rejected(e) : e \in Errors}
DetailResponses ==
    {Resolved(Some(d)) : d \in Details} \cup {Resolved(Null)} \cup {Rejected(e) : e \in Errors}
KeysResponses ==
    {Resolved(Some(k)) : k \in KeyLists} \cup {Resolved(Null)} \cup {Rejected(e) : e \in Errors}

\* how long a remote call takes, and how late a timer may fire, in ms
Latencies == {1000, 2000}
TimerSlack == {0, 100}

\* line 173
SleepMs == 2900

----------------------------------------------------------------------------
(* The pieces of main *)

\* something main did: a remote call, a sleep, a core.setSecret, a core.setOutput
Ev(e, k, v) == [e |-> e, k |-> k, v |-> v, says |-> {}]

\* the text of a template literal
RECURSIVE Join(_)
Join(parts) == IF Len(parts) = 0 THEN "" ELSE parts[1] \o Join(Tail(parts))

\* a message main wrote (console.log, console.error, core.info, core.warning,
\* core.setFailed): its text, and the pieces the text was built from
LogEv(e, parts) ==
    [e |-> e, k |-> Join(parts), v |-> "",
     says |-> {parts[i] : i \in 1..Len(parts)} \cup {Join(parts)}]

LoopCondInclusive(e, t) == e <= t.v * 1000
LoopCondNoClock(e, t) == 0 < t.v * 1000
\* line 55: Date.now() - now < timeout * 1000
LoopCond(e, t) == e < t.v * 1000

IsTransientOnly429(err) == err.hasStatus /\ err.status = 429
IsTransientAnyStatus(err) == err.hasStatus /\ err.status >= 400
\* lines 61, 81, 100: err.status === 429 || err.status >= 500
\* (undefined >= 500 is false)
IsTransient(err) == err.hasStatus /\ (err.status = 429 \/ err.status >= 500)

\* lines 62-63: what the catch of getBranches returns for a transient error
CatchList(err) == <<>>

\* lines 82-83
CatchDetail(err) == Null

CatchKeysEmptyList(err) == Some(<<>>)
\* lines 101-102
CatchKeys(err) == Null

RECURSIVE FindLast(_, _)
FindLast(bs, name) ==
    IF Len(bs) = 0 THEN Null
    ELSE IF StrictEqStr(bs[Len(bs)].name, name) THEN Some(bs[Len(bs)])
    ELSE FindLast(SubSeq(bs, 1, Len(bs) - 1), name)
\* line 69: branches.find((b) => b.name === branchName)
RECURSIVE Find(_, _)
Find(bs, name) ==
    IF Len(bs) = 0 THEN Null
    ELSE IF StrictEqStr(bs[1].name, name) THEN Some(bs[1])
    ELSE Find(Tail(bs), name)

IsReadyAnyStatus(cb, wait) == ~IsNull(cb)
IsReadyIgnoringFlag(cb, wait) ==
    /\ ~IsNull(cb)
    /\ \/ StrictEqStr(Val(cb).status, "MIGRATIONS_PASSED")
       \/ StrictEqStr(Val(cb).status, "FUNCTIONS_DEPLOYED")
\* lines 71-74
IsReady(cb, wait) ==
    /\ ~IsNull(cb)
    /\ \/ ~wait
       \/ StrictEqStr(Val(cb).status, "MIGRATIONS_PASSED")
       \/ StrictEqStr(Val(cb).status, "FUNCTIONS_DEPLOYED")

NoBranchOnlyUndefined(name) == IsNull(name)
\* line 44: !branchName
NoBranch(name) == IsNull(name) \/ Val(name) = ""

\* line 78: branchId: currentBranch.id
DetailsId(cb) == ToStr(cb.id)

KeysRefParent(cb) == ToStr(cb.parent_project_ref)
\* line 97: ref: currentBranch.project_ref
KeysRef(cb) == ToStr(cb.project_ref)

AfterPublishKeepPolling == "sleep"
\* line 167: return; // success
AfterPublish == "done"

NoDetailsNever(bd) == FALSE
\* line 90: !branchDetails
NoDetails(bd) == IsNull(bd)

\* line 109: !apiKeys (an empty array is truthy)
NoKeys(ks) == IsNull(ks)

SettleNothing(fl, op) == fl
\* an awaited call has settled
Settle(fl, op) == fl \ {op}

\* a call is issued
Issue(fl, op) == fl \cup {op}

RECURSIVE KeyEventsOutputFirst(_)
KeyEventsOutputFirst(ks) ==
    IF Len(ks) = 0 THEN <<>>
    ELSE <<Ev("setOutput", ks[1].name \o "_key", ks[1].api_key),
           Ev("setSecret", "", ks[1].api_key)>>
         \o KeyEventsOutputFirst(Tail(ks))
\* lines 115-118
RECURSIVE KeyEvents(_)
KeyEvents(ks) ==
    IF Len(ks) = 0 THEN <<>>
    ELSE <<Ev("setSecret", "", ks[1].api_key),
           Ev("setOutput", ks[1].name \o "_key", ks[1].api_key)>>
         \o KeyEvents(Tail(ks))

\* lines 120-131
branchKeys ==
    <<"id", "name", "project_ref", "parent_project_ref", "git_branch",
      "pr_number", "reset_on_push", "status", "created_at", "updated_at">>

\* lines 135-137: the key under which a value of the summary is published
OutputKey(key, value) ==
    IF StrictEqStr(value, "status") THEN key \o "branch_status" ELSE key

\* lines 132-141
RECURSIVE SummaryEvents(_, _)
SummaryEvents(cb, keys) ==
    IF Len(keys) = 0 THEN <<>>
    ELSE LET value == cb[keys[1]]
         IN (IF Truthy(value)
             THEN <<Ev("setSecret", "", ToStr(value)),
                    Ev("setOutput", OutputKey(keys[1], value), ToStr(value))>>
             ELSE <<>>)
            \o SummaryEvents(cb, Tail(keys))

\* lines 143-149
branchDetailsKeys == <<"db_host", "db_port", "db_user", "db_pass", "jwt_secret">>

\* lines 150-156
RECURSIVE DetailEvents(_, _)
DetailEvents(bd, keys) ==
    IF Len(keys) = 0 THEN <<>>
    ELSE LET value == bd[keys[1]]
         IN (IF Truthy(value)
             THEN <<Ev("setSecret", "", ToStr(value)),
                    Ev("setOutput", keys[1], ToStr(value))>>
             ELSE <<>>)
            \o DetailEvents(bd, Tail(keys))

\* lines 158-166
UrlEvents(bd) ==
    <<Ev("setOutput", "api_url", "https://" \o ToStr(bd.ref) \o ".supabase.co/rest/v1"),
      Ev("setOutput", "graphql_url", "https://" \o ToStr(bd.ref) \o ".supabase.co/graphql/v1"),
      LogEv("info", <<"success">>)>>

\* lines 114-166
PublishEvents(ks, cb, bd) ==
    KeyEvents(ks) \o SummaryEvents(cb, branchKeys)
    \o DetailEvents(bd, branchDetailsKeys) \o UrlEvents(bd)

\* the core.setOutput calls and the core.setSecret values among events
RECURSIVE OutputsOf(_)
OutputsOf(evs) ==
    IF Len(evs) = 0 THEN <<>>
    ELSE (IF evs[1].e = "setOutput"
          THEN <<[name |-> evs[1].k, value |-> evs[1].v]>> ELSE <<>>)
         \o OutputsOf(Tail(evs))

SecretsOf(evs) == {evs[i].v : i \in {j \in 1..Len(evs) : evs[j].e = "setSecret"}}

\* line 176
TimeoutParts(name) == <<"Timeout waiting for branch ", name, " to be created">>
TimeoutMessage(name) == Join(TimeoutParts(name))

\* lines 65-67, 85-87, 104-106: new Error(message) with cause
WrappedError(message, err) == [message |-> message, cause |-> err]

----------------------------------------------------------------------------
(* The state machine *)

Init ==
    /\ pc = "start"
    /\ sbToken \in {"", "tok"}
    /\ sbRef \in {"", "proj"}
    /\ waitForMigrations \in BOOLEAN
    /\ timeoutInput \in TimeoutInputs
    /\ env \in Envs
    /\ timeout = NaN
    /\ branchName = Null
    /\ elapsed = 0
    /\ branches = <<>>
    /\ currentBranch = Null
    /\ ready = FALSE
    /\ branchDetails = Null
    /\ apiKeys = Null
    /\ lastErr = Null
    /\ inflight = {}
    /\ calls = [list |-> 0, detail |-> 0, creds |-> 0]
    /\ readyTicks = 0
    /\ events = <<>>
    /\ secrets = {}
    /\ outputs = <<>>
    /\ failed = FALSE
    /\ failMsg = ""
    /\ caught = Null
    /\ success = FALSE

\* core.setFailed(msg); return
SetFailed(parts, evs) ==
    /\ failed' = TRUE
    /\ failMsg' = Join(parts)
    /\ events' = evs \o <<LogEv("setFailed", parts)>>
    /\ pc' = "done"
    /\ UNCHANGED <<caught, success>>

\* lines 5 and 181-184: main() rejects with thrown, handleError(thrown)
HandleError(thrown, evs) ==
    /\ caught' = Some(thrown)
    /\ failed' = TRUE
    /\ failMsg' = "Unhandled error: Error: " \o thrown.message
    /\ events' = evs \o <<LogEv("console.error", <<"Error: ", thrown.message, " [cause]: ",
                                                    ErrToString(thrown.cause)>>),
                          LogEv("setFailed", <<"Unhandled error: Error: ", thrown.message>>)>>
    /\ pc' = "done"
    /\ UNCHANGED success

\* lines 8-54: read the inputs, validate them, resolve the branch name
Start ==
    /\ pc = "start"
    /\ timeout' = ParseNumber(timeoutInput)
    /\ secrets' = secrets \cup {sbToken, sbRef}
    /\ IF sbToken = ""
       THEN /\ SetFailed(<<"Supabase access token is not defined">>, events)
            /\ UNCHANGED branchName
       ELSE IF sbRef = ""
       THEN /\ SetFailed(<<"Supabase project id is not defined">>, events)
            /\ UNCHANGED branchName
       ELSE IF ParseNumber(timeoutInput).nan
       THEN /\ SetFailed(<<"Timeout is not a valid number">>, events)
            /\ UNCHANGED branchName
       ELSE LET name == ResolveBranchName(env)
                logged == <<LogEv("console.log",
                                  <<IF IsNull(name) THEN "undefined" ELSE Val(name)>>)>>
            IN /\ branchName' = name
               /\ IF NoBranch(name)
                  THEN SetFailed(<<"Git branch not found">>, events \o logged)
                  ELSE /\ events' = events \o logged
                                    \o <<LogEv("info", <<"Current Git branch: ", Val(name)>>)>>
                       /\ pc' = "guard"
                       /\ UNCHANGED outcome
    /\ UNCHANGED <<inputs, elapsed, tickVars, lastErr, inflight, calls, readyTicks, outputs>>

\* line 55 and, when the condition holds, line 56; otherwise line 176
Guard ==
    /\ pc = "guard"
    /\ IF LoopCond(elapsed, timeout)
       THEN /\ pc' = "list"
            /\ branches' = <<>>
            /\ currentBranch' = Null
            /\ ready' = FALSE
            /\ branchDetails' = Null
            /\ apiKeys' = Null
            /\ lastErr' = Null
            /\ inflight' = Issue(inflight, "list")
            /\ calls' = [calls EXCEPT !.list = @ + 1]
            /\ events' = <<Ev("call", "getBranches", sbRef)>>
            /\ UNCHANGED outcome
       ELSE /\ SetFailed(TimeoutParts(Val(branchName)), events)
            /\ UNCHANGED <<tickVars, lastErr, inflight, calls>>
    /\ UNCHANGED <<inputs, timeout, branchName, elapsed, readyTicks, secrets, outputs>>

\* lines 56-75 and 170-173: getBranches settles
ListReturn ==
    /\ pc = "list"
    /\ \E resp \in ListResponses, lat \in Latencies :
        /\ elapsed' = elapsed + lat
        /\ lastErr' = IF resp.ok THEN Null ELSE Some(resp.err)
        /\ IF ~resp.ok /\ ~IsTransient(resp.err)
           THEN /\ HandleError(WrappedError("Failed fetching fetching branches", resp.err), events)
                /\ inflight' = Settle(inflight, "list")
                /\ UNCHANGED <<tickVars, calls, readyTicks>>
           ELSE LET bs == IF resp.ok THEN resp.val ELSE CatchList(resp.err)
                    warned == IF resp.ok THEN <<>>
                              ELSE <<LogEv("warning", <<"Failed fetching fetching branches: ",
                                                        ErrToString(resp.err)>>)>>
                    cb == Find(bs, Val(branchName))
                IN /\ branches' = bs
                   /\ currentBranch' = cb
                   /\ ready' = IsReady(cb, waitForMigrations)
                   /\ UNCHANGED <<branchDetails, apiKeys, outcome>>
                   /\ IF IsReady(cb, waitForMigrations)
                      THEN /\ events' = events \o warned
                                \o <<LogEv("info", <<"Branch ", Val(branchName), " found, status: ",
                                                     ToStr(Val(cb).status)>>),
                                     Ev("call", "getBranchDetails", DetailsId(Val(cb)))>>
                           /\ inflight' = Issue(Settle(inflight, "list"), "detail")
                           /\ calls' = [calls EXCEPT !.detail = @ + 1]
                           /\ readyTicks' = readyTicks + 1
                           /\ pc' = "detail"
                      ELSE /\ events' = events \o warned
                                \o <<LogEv("info", <<"Waiting for branch ", Val(branchName),
                                                     " to be created. Status=",
                                                     IF IsNull(cb) THEN "undefined"
                                                     ELSE ToStr(Val(cb).status)>>),
                                     Ev("sleep", ToString(SleepMs), "")>>
                           /\ inflight' = Settle(inflight, "list")
                           /\ UNCHANGED <<calls, readyTicks>>
                           /\ pc' = "sleep"
    /\ UNCHANGED <<inputs, timeout, branchName, secrets, outputs>>

\* lines 76-98: getBranchDetails settles
DetailReturn ==
    /\ pc = "detail"
    /\ \E resp \in DetailResponses, lat \in Latencies :
        /\ elapsed' = elapsed + lat
        /\ lastErr' = IF resp.ok THEN Null ELSE Some(resp.err)
        /\ IF ~resp.ok /\ ~IsTransient(resp.err)
           THEN /\ HandleError(WrappedError("Error fetching branch details", resp.err), events)
                /\ inflight' = Settle(inflight, "detail")
                /\ UNCHANGED <<branchDetails, calls>>
           ELSE LET bd == IF resp.ok THEN resp.val ELSE CatchDetail(resp.err)
                    warned == IF resp.ok THEN <<>>
                              ELSE <<LogEv("warning", <<"Error fetching branch details: ",
                                                        ErrToString(resp.err)>>)>>
                IN /\ branchDetails' = bd
                   /\ UNCHANGED outcome
                   /\ IF NoDetails(bd)
                      THEN /\ events' = events \o warned
                                \o <<LogEv("warning", <<"Branch details not found">>)>>
                           /\ inflight' = Settle(inflight, "detail")
                           /\ UNCHANGED calls
                           /\ pc' = "guard"
                      ELSE /\ events' = events \o warned
                                \o <<Ev("call", "getProjectApiKeys", KeysRef(Val(currentBranch)))>>
                           /\ inflight' = Issue(Settle(inflight, "detail"), "creds")
                           /\ calls' = [calls EXCEPT !.creds = @ + 1]
                           /\ pc' = "creds"
    /\ UNCHANGED <<inputs, timeout, branchName, branches, currentBranch, ready,
                   apiKeys, readyTicks, secrets, outputs>>

\* lines 95-167: getProjectApiKeys settles
KeysReturn ==
    /\ pc = "creds"
    /\ \E resp \in KeysResponses, lat \in Latencies :
        /\ elapsed' = elapsed + lat
        /\ lastErr' = IF resp.ok THEN Null ELSE Some(resp.err)
        /\ inflight' = Settle(inflight, "creds")
        /\ IF ~resp.ok /\ ~IsTransient(resp.err)
           THEN /\ HandleError(WrappedError("Error fetching api keys", resp.err), events)
                /\ UNCHANGED <<apiKeys, secrets, outputs>>
           ELSE LET ks == IF resp.ok THEN resp.val ELSE CatchKeys(resp.err)
                    warned == IF resp.ok THEN <<>>
                              ELSE <<LogEv("warning", <<"Error fetching api keys: ",
                                                        ErrToString(resp.err)>>)>>
                IN /\ apiKeys' = ks
                   /\ IF NoKeys(ks)
                      THEN /\ events' = events \o warned
                                \o <<LogEv("warning", <<"Api keys not found">>)>>
                           /\ pc' = "guard"
                           /\ UNCHANGED <<secrets, outputs, outcome>>
                      ELSE LET published ==
                                   PublishEvents(Val(ks), Val(currentBranch), Val(branchDetails))
                           IN /\ events' = events \o warned \o published
                              /\ secrets' = secrets \cup SecretsOf(published)
                              /\ outputs' = outputs \o OutputsOf(published)
                              /\ success' = TRUE
                              /\ pc' = AfterPublish
                              /\ UNCHANGED <<failed, failMsg, caught>>
    /\ UNCHANGED <<inputs, timeout, branchName, branches, currentBranch, ready,
                   branchDetails, calls, readyTicks>>

\* line 173: the timer of the sleep fires
SleepReturn ==
    /\ pc = "sleep"
    /\ \E late \in TimerSlack : elapsed' = elapsed + SleepMs + late
    /\ pc' = "guard"
    /\ UNCHANGED <<inputs, timeout, branchName, tickVars, lastErr, inflight, calls,
                   readyTicks, events, secrets, outputs, outcome>>

Next ==
    \/ Start
    \/ Guard
    \/ ListReturn
    \/ DetailReturn
    \/ KeysReturn
    \/ SleepReturn

Spec == Init /\ [][Next]_vars

\* every pending await settles (each issued call returns, each timer fires)
\* and the event loop then runs the continuation of main
FairSpec == Spec /\ WF_vars(Next)

----------------------------------------------------------------------------
(* Properties *)

\* the positions at which main awaits a remote call
CallStates == {"list", "detail", "creds"}

\* a failure with status 429 or status >= 500
RetrySafe(err) == err.hasStatus /\ (err.status = 429 \/ err.status >= 500)

\* C1: the elapsed-time guard is evaluated before every list call; a guard
\* evaluation that observes elapsed >= timeout * 1000 issues no remote call and
\* ends the run failed with the timeout message naming the branch, and no
\* call is ever issued once the run is done.
C1_TimeoutGuard ==
    /\ [][(calls'.list # calls.list) =>
            (pc = "guard" /\ elapsed < timeout.v * 1000)]_vars
    /\ [][(pc = "guard" /\ elapsed >= timeout.v * 1000) =>
            /\ pc' = "done"
            /\ failed'
            /\ ~success'
            /\ failMsg' = "Timeout waiting for branch " \o Val(branchName) \o " to be created"
            /\ calls' = calls
            /\ inflight' = {}]_vars
    /\ [][pc = "done" => (calls' = calls /\ pc' = "done")]_vars

C1_Witness ==
    /\ pc = "done"
    /\ failed
    /\ IsNull(caught)
    /\ calls.list >= 2
    /\ elapsed = timeout.v * 1000

\* C2: a call that fails with status 429 or >= 500 does not fail the run and
\* does not end the loop; the tick goes on as for an empty listing (no
\* candidate, progress notice and sleep), an absent detail or absent
\* credentials (the rest of the iteration is skipped).
C2_TransientIsEmpty ==
    [][(pc \in CallStates /\ ~IsNull(lastErr') /\ RetrySafe(Val(lastErr'))) =>
         /\ ~failed'
         /\ IsNull(caught')
         /\ pc' # "done"
         /\ outputs' = outputs
         /\ calls' = calls
         /\ pc = "list" => (branches' = <<>> /\ IsNull(currentBranch') /\ ~ready' /\ pc' = "sleep")
         /\ pc = "detail" => (IsNull(branchDetails') /\ pc' = "guard")
         /\ pc = "creds" => (IsNull(apiKeys') /\ pc' = "guard")]_vars

C2_Witness ==
    /\ pc = "guard"
    /\ ~IsNull(lastErr)
    /\ Val(lastErr) = ApiErr(500)
    /\ ~IsNull(branchDetails)
    /\ IsNull(apiKeys)

\* C3: a call that fails with any other status, or with no status, ends the
\* run at once: failed, not successful, nothing published, no call issued or
\* pending, and the error handed to handleError has the failure as its cause.
C3_FatalAborts ==
    [][(pc \in CallStates /\ ~IsNull(lastErr') /\ ~RetrySafe(Val(lastErr'))) =>
         /\ pc' = "done"
         /\ failed'
         /\ ~success'
         /\ outputs' = <<>>
         /\ calls' = calls
         /\ inflight' = {}
         /\ ~IsNull(caught')
         /\ Val(caught').cause = Val(lastErr')]_vars

C3_Witness ==
    /\ pc = "done"
    /\ failed
    /\ ~IsNull(caught)
    /\ Val(caught).cause = NetErr
    /\ calls.creds = 1

\* C4: outputs exist only in the final state of the one iteration whose
\* detail fetch and credential fetch both returned a result without failing;
\* they were all published in that iteration's last step.
C4_NoPartialSuccess ==
    /\ [](outputs # <<>> =>
            /\ success
            /\ ~failed
            /\ pc = "done"
            /\ ~IsNull(branchDetails)
            /\ ~IsNull(apiKeys)
            /\ IsNull(lastErr))
    /\ [][outputs' # outputs => (outputs = <<>> /\ pc = "creds" /\ success')]_vars

C4_Witness ==
    /\ outputs # <<>>
    /\ calls.detail >= 2
    /\ calls.creds >= 2

\* C5: a list call other than the first is issued only after the previous
\* tick ended with the progress notice and the sleep.
C5_SleepBetweenTicks ==
    [][(calls'.list = calls.list + 1 /\ calls.list >= 1) =>
         /\ Len(events) >= 2
         /\ events[Len(events)].e = "sleep"
         /\ events[Len(events) - 1].e = "info"]_vars

\* C6: the readiness decision of a tick is: a candidate is present and,
\* when the flag is set, its status is MIGRATIONS_PASSED or FUNCTIONS_DEPLOYED.
C6_Readiness ==
    ready <=>
        /\ ~IsNull(currentBranch)
        /\ waitForMigrations =>
              Val(currentBranch).status \in
                  {StrV("MIGRATIONS_PASSED"), StrV("FUNCTIONS_DEPLOYED")}

C6_Witness ==
    /\ ready
    /\ ~waitForMigrations
    /\ Val(currentBranch).status = StrV("CREATING_PROJECT")
    /\ pc = "creds"

\* C7: the candidate is the first element of the tick's listing whose name is
\* exactly the branch name, and there is none iff no element has that name.
C7_FirstMatch ==
    LET matching == {i \in 1..Len(branches) : branches[i].name = StrV(Val(branchName))}
    IN /\ matching = {} <=> IsNull(currentBranch)
       /\ matching # {} =>
            \E i \in matching :
                /\ \A j \in matching : i <= j
                /\ currentBranch = Some(branches[i])
       /\ (pc = "sleep" /\ ~IsNull(lastErr)) => IsNull(currentBranch)

C7_Witness ==
    /\ Len(branches) = 2
    /\ branches[1].name = StrV(Val(branchName))
    /\ branches[2].name = StrV(Val(branchName))
    /\ branches[1] # branches[2]
    /\ currentBranch = Some(branches[1])

\* C8: a detail fetch is issued exactly in the step that decides the tick is
\* ready, a credential fetch exactly in the step in which the detail fetch
\* returned a result; a successful run with one ready tick made exactly one
\* detail fetch and one credential fetch.
C8_LazyFetches ==
    /\ [][(calls'.detail = calls.detail + 1) <=> (pc = "list" /\ ready')]_vars
    /\ [][(calls'.detail # calls.detail) => (calls'.detail = calls.detail + 1)]_vars
    /\ [][(calls'.creds = calls.creds + 1) <=>
            (pc = "detail" /\ ~IsNull(branchDetails'))]_vars
    /\ [][(calls'.creds # calls.creds) => (calls'.creds = calls.creds + 1)]_vars
    /\ []((success /\ readyTicks = 1) => (calls.detail = 1 /\ calls.creds = 1))

C8_Witness ==
    /\ success
    /\ waitForMigrations
    /\ readyTicks = 1
    /\ calls.list = 2
    /\ calls.detail = 1
    /\ calls.creds = 1

\* the outputs named name
OutputsNamed(name) == SelectSeq(outputs, LAMBDA o : o.name = name)

\* C9: after success every truthy summary field and every truthy detail field
\* is published exactly once, under the field's own name, with the field's
\* stringified value.
C9_FixedOutputNames ==
    success =>
        /\ \A i \in 1..Len(branchKeys) :
             LET value == Val(currentBranch)[branchKeys[i]]
             IN Truthy(value) =>
                  OutputsNamed(branchKeys[i]) =
                      <<[name |-> branchKeys[i], value |-> ToStr(value)]>>
        /\ \A i \in 1..Len(branchDetailsKeys) :
             LET value == Val(branchDetails)[branchDetailsKeys[i]]
             IN Truthy(value) =>
                  OutputsNamed(branchDetailsKeys[i]) =
                      <<[name |-> branchDetailsKeys[i], value |-> ToStr(value)]>>

\* the remote calls the current tick has issued, in order
CallsOfTick == SelectSeq(events, LAMBDA e : e.e = "call")

\* C10: at most one remote call is pending, it is the one main awaits, the
\* calls of a tick are a prefix of list, detail, credentials, and a tick's
\* list call is issued when no call is pending.
C10_Sequential ==
    /\ [](/\ Cardinality(inflight) <= 1
          /\ pc \in CallStates => inflight = {pc}
          /\ pc \notin CallStates => inflight = {}
          /\ pc \notin {"start", "done"} =>
               \E n \in 0..3 :
                   [i \in 1..Len(CallsOfTick) |-> CallsOfTick[i].k] =
                       SubSeq(<<"getBranches", "getBranchDetails", "getProjectApiKeys">>, 1, n))
    /\ [][(calls' # calls) => Cardinality(inflight') = 1]_vars
    /\ [][(calls'.list # calls.list) => inflight = {}]_vars

C10_Witness ==
    /\ pc = "creds"
    /\ inflight = {"creds"}
    /\ calls.list >= 2
    /\ Len(CallsOfTick) = 3

\* the inputs pass the checks of lines 16-29 and 44-47
ConfigOk ==
    /\ sbToken # ""
    /\ sbRef # ""
    /\ timeoutInput # "abc"
    /\ \/ ~IsNull(env.head) /\ Val(env.head) # ""
       \/ /\ ~IsNull(env.ref)
          /\ \E i \in 1..(Len(Val(env.ref)) - 2) :
               /\ Val(env.ref)[i] = "refs"
               /\ Val(env.ref)[i + 1] = "heads"
               /\ Val(env.ref)[i + 2] # ""

\* the candidate of the tick exists and its status is one of the two ready ones
StatusReady(cb) ==
    /\ ~IsNull(cb)
    /\ Val(cb).status \in {StrV("MIGRATIONS_PASSED"), StrV("FUNCTIONS_DEPLOYED")}

\* C11: with the flag set, a tick whose candidate is absent or not at a ready
\* status issues no detail or credential fetch and publishes nothing; as long
\* as no tick was ready nothing is fetched or published; a run that ends that
\* way without a fatal error ends at or after the timeout with the timeout
\* failure naming the branch; and a run whose candidate never reaches a ready
\* status and in which no call fails fatally does end that way.
C11_NeverReadyTimesOut ==
    /\ [][(pc = "list" /\ waitForMigrations /\ ~StatusReady(currentBranch')) =>
            /\ calls' = calls
            /\ outputs' = outputs
            /\ pc' \in {"sleep", "done"}]_vars
    /\ []((waitForMigrations /\ calls.detail = 0) =>
            (calls.creds = 0 /\ outputs = <<>> /\ ~success))
    /\ []((pc = "done" /\ ConfigOk /\ waitForMigrations /\ calls.detail = 0 /\ IsNull(caught)) =>
            /\ failed
            /\ failMsg = "Timeout waiting for branch " \o Val(branchName) \o " to be created"
            /\ elapsed >= timeout.v * 1000)
    /\ [](ConfigOk /\ waitForMigrations /\ ~StatusReady(currentBranch) /\ IsNull(caught))
         => <>(/\ pc = "done"
               /\ failed
               /\ calls.detail = 0
               /\ failMsg = "Timeout waiting for branch " \o Val(branchName) \o " to be created")

C11_Witness ==
    /\ pc = "done"
    /\ waitForMigrations
    /\ failed
    /\ IsNull(caught)
    /\ calls = [list |-> 2, detail |-> 0, creds |-> 0]
    /\ ~IsNull(currentBranch)
    /\ Val(currentBranch).status = StrV("MIGRATIONS_FAILED")

\* the longest a tick can last: three remote calls of the longest latency
LongestTick == 3 * (CHOOSE l \in Latencies : \A m \in Latencies : m <= l)

\* C12: every run reaches Done, and until then the loop is never more than
\* one tick past the timeout.
C12_Terminates ==
    /\ <>(pc = "done")
    /\ [](pc # "done" => elapsed < timeout.v * 1000 + LongestTick)

C12_Witness ==
    /\ pc = "done"
    /\ failed
    /\ IsNull(caught)
    /\ ~IsNull(lastErr)
    /\ calls.list >= 3
    /\ calls.detail >= 3

NoCalls == [list |-> 0, detail |-> 0, creds |-> 0]

\* C13: an empty token, an empty project id, a timeout that is not a number
\* or an unresolvable branch name ends the run failed in the first segment of
\* main: the loop is never reached, no call is issued, nothing is published.
C13_ConfigErrors ==
    (pc # "start" /\ ~ConfigOk) =>
        /\ pc = "done"
        /\ failed
        /\ ~success
        /\ IsNull(caught)
        /\ calls = NoCalls
        /\ inflight = {}
        /\ outputs = <<>>
        /\ elapsed = 0
        /\ \A i \in 1..Len(events) : events[i].e \notin {"call", "sleep", "setOutput"}

C13_Witness ==
    /\ pc = "done"
    /\ failed
    /\ sbToken # ""
    /\ sbRef # ""
    /\ timeoutInput = "3"
    /\ env = [head |-> Null, ref |-> Some(<<"refs", "heads", "">>)]

\* the kinds of event that are messages
LogKinds == {"console.log", "console.error", "info", "warning", "setFailed"}

\* the values the publishing code has to mask
MaskedValues ==
    {Val(apiKeys)[i].api_key : i \in 1..Len(Val(apiKeys))}
    \cup {ToStr(Val(currentBranch)[branchKeys[i]]) :
            i \in {j \in 1..Len(branchKeys) : Truthy(Val(currentBranch)[branchKeys[j]])}}
    \cup {ToStr(Val(branchDetails)[branchDetailsKeys[i]]) :
            i \in {j \in 1..Len(branchDetailsKeys) :
                     Truthy(Val(branchDetails)[branchDetailsKeys[j]])}}

\* C14: every credential value and every truthy summary or detail value is
\* passed to setSecret before the setOutput that publishes it, and no message
\* written after a setSecret of the publishing code contains the marked value.
C14_MaskBeforePublish ==
    /\ \A j \in 1..Len(events) :
         (events[j].e = "setOutput" /\ events[j].k \notin {"api_url", "graphql_url"}) =>
             \E i \in 1..(j - 1) :
                 events[i].e = "setSecret" /\ events[i].v = events[j].v
    /\ \A i \in 1..Len(events) : \A j \in (i + 1)..Len(events) :
         (events[i].e = "setSecret" /\ events[j].e \in LogKinds) =>
             events[i].v \notin events[j].says
    /\ success =>
         /\ MaskedValues \subseteq secrets
         /\ MaskedValues \subseteq {outputs[i].value : i \in 1..Len(outputs)}

C14_Witness ==
    /\ success
    /\ Len(Val(apiKeys)) = 2
    /\ "k-service" \in secrets
    /\ "pw" \in secrets
    /\ events[Len(events)].e = "info"

\* C15: a credential fetch that resolves to nothing or to an empty list
\* publishes nothing, does not signal success and goes on to the next tick.
C15_EmptyKeysSkipped ==
    [][(pc = "creds" /\ IsNull(lastErr') /\ apiKeys' \in {Null, Some(<<>>)}) =>
         /\ outputs' = outputs
         /\ ~success'
         /\ pc' = "guard"]_vars

\* the first element of the tick's listing that has the branch's name
FirstListed ==
    LET matching == {i \in 1..Len(branches) : branches[i].name = StrV(Val(branchName))}
    IN branches[CHOOSE i \in matching : \A j \in matching : i <= j]

\* C16: the detail fetch of a tick is made with the id of the first element
\* of that tick's listing that has the branch's name, the credential fetch
\* with that element's own project reference (not the parent's), and every
\* summary value published is that element's.
C16_SameCandidate ==
    /\ \A i \in 1..Len(events) :
         (events[i].e = "call" /\ events[i].k = "getBranchDetails") =>
             /\ currentBranch = Some(FirstListed)
             /\ StrV(events[i].v) = FirstListed.id
    /\ \A i \in 1..Len(events) :
         (events[i].e = "call" /\ events[i].k = "getProjectApiKeys") =>
             /\ currentBranch = Some(FirstListed)
             /\ StrV(events[i].v) = FirstListed.project_ref
             /\ StrV(events[i].v) # FirstListed.parent_project_ref
             /\ events[i].v # sbRef
    /\ success =>
         /\ currentBranch = Some(FirstListed)
         /\ \A i \in 1..Len(branchKeys) :
              Truthy(FirstListed[branchKeys[i]]) =>
                  \E j \in 1..Len(outputs) :
                      /\ outputs[j].value = ToStr(FirstListed[branchKeys[i]])
                      /\ outputs[j].name \in {branchKeys[i], branchKeys[i] \o "branch_status"}
         /\ \E i \in 1..Len(events), j \in 1..Len(outputs) :
              /\ events[i].e = "call"
              /\ events[i].k = "getBranchDetails"
              /\ outputs[j].name = "id"
              /\ outputs[j].value = events[i].v

C16_Witness ==
    /\ success
    /\ calls.list >= 2
    /\ calls.detail >= 2
    /\ Len(branches) = 2
    /\ branches[1].name = branches[2].name
    /\ branches[1].id # branches[2].id
    /\ currentBranch = Some(branches[1])

\* C17: success and failure exclude each other, outputs exist only with
\* success, a failed run has published nothing, the run is done exactly when
\* it has succeeded or failed, and nothing happens after Done.
C17_ExclusiveOutcomes ==
    /\ [](~(success /\ failed))
    /\ [](outputs # <<>> => (success /\ ~failed))
    /\ [](failed => outputs = <<>>)
    /\ [](pc = "done" <=> (success \/ failed))
    /\ []((success \/ failed) => inflight = {})
    /\ [][(success \/ failed) => UNCHANGED vars]_vars

C17_Witness ==
    /\ pc = "done"
    /\ success
    /\ ~failed
    /\ outputs # <<>>
    /\ calls.list >= 2
    /\ readyTicks >= 2

\* C18: with valid inputs and a timeout of zero or less the loop body is
\* never entered: no call is ever issued and the run ends with the timeout
\* failure naming the branch.
C18_NonPositiveTimeout ==
    (pc # "start" /\ ConfigOk /\ timeout.v <= 0) =>
        /\ pc \in {"guard", "done"}
        /\ calls = NoCalls
        /\ inflight = {}
        /\ outputs = <<>>
        /\ pc = "done" =>
             /\ failed
             /\ IsNull(caught)
             /\ failMsg = "Timeout waiting for branch " \o Val(branchName) \o " to be created"

C18_Witness ==
    /\ pc = "done"
    /\ failed
    /\ ConfigOk
    /\ timeoutInput = "-1"
    /\ failMsg = "Timeout waiting for branch feat to be created"

====
